---- MODULE Spec2Model ----
(***************************************************************************)
(* GlobalIndexTracker (src/app.py): the quote refresh, the history         *)
(* refresh and the display filter of the Global Index Tracker dashboard.   *)
(*                                                                         *)
(* An observation (one row of the upstream price table) is modelled by its *)
(* Close; Open, High, Low and Volume are copied into the record untouched  *)
(* and take no part in any computed column.  Closes are whole numbers and  *)
(* the float arithmetic of the code is modelled by exact rationals plus    *)
(* the IEEE values nan, inf and -inf that numpy produces on division by 0. *)
(***************************************************************************)
EXTENDS Integers, Sequences, FiniteSets, TLC

\* ---- bounds of the model ------------------------------------------------
\* observations in one upstream answer, the largest close, and the longest
\* run of consecutive failing upstream calls
MaxObs == 2
MaxPrice == 2
MaxFails == 3

\* ---- values --------------------------------------------------------------
\* Python's None and a present value, as a sequence of no or one element
None == <<>>
Some(x) == <<x>>
Get(opt) == opt[1]

\* floats are fractions num/den; a denominator of 0 encodes nan, inf and -inf
NaN == [num |-> 0, den |-> 0]
PosInf == [num |-> 1, den |-> 0]
NegInf == [num |-> -1, den |-> 0]

Abs(x) == IF x < 0 THEN -x ELSE x

RECURSIVE Gcd(_, _)
Gcd(a, b) == IF b = 0 THEN a ELSE Gcd(b, a % b)

\* the float n/d for d # 0, as a reduced fraction with a positive denominator
Rat(n, d) ==
    LET g == Gcd(Abs(n), Abs(d))
        s == IF d < 0 THEN -1 ELSE 1
    IN  [num |-> s * (n \div g), den |-> Abs(d) \div g]

IsRat(x) == x.den # 0

\* numpy's float division, which never raises
FloatDiv(a, b) ==
    IF b # 0 THEN Rat(a, b)
    ELSE IF a = 0 THEN NaN ELSE IF a > 0 THEN PosInf ELSE NegInf

FloatMinusOne(x) == IF IsRat(x) THEN Rat(x.num - x.den, x.den) ELSE x

FloatTimes100(x) == IF IsRat(x) THEN Rat(100 * x.num, x.den) ELSE x

\* ---- the reference table -------------------------------------------------
index_info ==
    [s \in {"^N225", "^TPX"} |->
        IF s = "^N225"
        THEN [name |-> "Nikkei 225", region |-> "Japan", currency |-> "JPY"]
        ELSE [name |-> "TOPIX", region |-> "Japan", currency |-> "JPY"]]

\* the symbols a caller may request: two listed ones and an unlisted one
Symbols == {"^N225", "^TPX", "ZZZ"}

\* a listed and an unlisted one, for the requests of up to two symbols
TwoSymbols == {"^N225", "ZZZ"}

InfoOf(symbol) ==
    IF symbol \in DOMAIN index_info THEN index_info[symbol]
    ELSE [name |-> symbol, region |-> "Unknown", currency |-> "USD"]

\* ---- the upstream data source --------------------------------------------
\* One response per requested position: the first `fails` calls raise, a
\* later call returns the close series `hist` (oldest first).
Prices == 0 .. MaxPrice

\* a market that does not move: where only the shape of an answer matters
SteadyPrices == {1}

SeriesOver(P) == UNION {[1 .. n -> P] : n \in 0 .. MaxObs}

Response(fails, hist) == [fails |-> fails, hist |-> hist]

Unavailable == Response(MaxFails, <<>>)

\* answers at once, or never within MaxFails calls
Responses == {Response(0, h) : h \in SeriesOver(Prices)} \cup {Unavailable}

SteadyResponses ==
    {Response(0, h) : h \in SeriesOver(SteadyPrices)} \cup {Unavailable}

\* period="2d" answered in full: the closes of two days
TwoDayResponses == {Response(0, h) : h \in [1 .. 2 -> Prices]}

\* answers after 1 .. MaxFails failing calls
TransientResponses ==
    {Response(f, h) : f \in 1 .. MaxFails, h \in SeriesOver(Prices)}

\* ticker.history(...) on the a-th call for this position
history(o, a) ==
    IF a <= o.fails THEN [raised |-> TRUE, hist |-> <<>>]
    ELSE [raised |-> FALSE, hist |-> o.hist]

\* the requests over S: the non-empty lists of distinct symbols
ListsOver(S) ==
    {l \in UNION {[1 .. n -> S] : n \in 1 .. Cardinality(S)} :
        \A i, j \in 1 .. Len(l) : i # j => l[i] # l[j]}

SymbolLists == ListsOver(Symbols)

PairLists == ListsOver(TwoSymbols)

Range(seq) == {seq[i] : i \in 1 .. Len(seq)}

\* ---- state ---------------------------------------------------------------
VARIABLES
    index_data,         \* None or Some(table), a table being a sequence of records
    historical_data,    \* None or Some(mapping symbol -> series)
    call,               \* the operation that ran last
    symbols,            \* its symbol list
    upstream,           \* what the data source would answer, by position
    attempts,           \* upstream calls it made, by position
    ret,                \* None or Some(its return value)
    signals,            \* the st.warning / st.error it emitted, in order
    regions,            \* the display filter's region selection
    performance_filter, \* the display filter's bucket
    filtered_data       \* None or Some(the display filter's result)

vars == <<index_data, historical_data, call, symbols, upstream, attempts,
          ret, signals, regions, performance_filter, filtered_data>>

\* ---- fetch_index_data ----------------------------------------------------
\* The outer except of the method is reached by no list of symbols: every
\* statement that can raise stands inside the per-symbol try.
HasTwoObservations(hist) == Len(hist) # 0 /\ Len(hist) >= 2

change_of(current_close, prev_close) == current_close - prev_close

change_pct_as_fraction(change, prev_close) ==
    IF prev_close # 0 THEN FloatDiv(change, prev_close) ELSE Rat(0, 1)

change_pct(change, prev_close) ==
    IF prev_close # 0 THEN FloatTimes100(FloatDiv(change, prev_close))
    ELSE Rat(0, 1)

QuoteRecord(symbol, hist) ==
    LET current_close == hist[Len(hist)]
        prev_close == hist[Len(hist) - 1]
        info == InfoOf(symbol)
        change == change_of(current_close, prev_close)
    IN  [Symbol |-> symbol, Name |-> info.name, Region |-> info.region,
         Currency |-> info.currency, Price |-> current_close,
         Change |-> change, ChangePct |-> change_pct(change, prev_close)]

Warning(symbol) == [kind |-> "warning", symbol |-> symbol]

\* st.error names no symbol
Error == [kind |-> "error", symbol |-> "*"]

NewResultsMerged(old) == IF old = None THEN <<>> ELSE Get(old)

\* results = []
NewResults(old) == <<>>

\* the loop body for position i
QuoteStepQuiet(syms, up, i, acc) ==
    LET got == history(up[i], 1)
    IN  IF ~got.raised /\ Len(got.hist) >= 2
        THEN [acc EXCEPT !.results = Append(@, QuoteRecord(syms[i], got.hist))]
        ELSE acc

QuoteStep(syms, up, i, acc) ==
    LET got == history(up[i], 1)
    IN  IF got.raised
        THEN [acc EXCEPT !.signals = Append(@, Warning(syms[i]))]
        ELSE IF HasTwoObservations(got.hist)
        THEN [acc EXCEPT !.results = Append(@, QuoteRecord(syms[i], got.hist))]
        ELSE acc

RECURSIVE QuoteLoop(_, _, _, _)
QuoteLoop(syms, up, i, acc) ==
    IF i > Len(syms) THEN acc
    ELSE QuoteLoop(syms, up, i + 1, QuoteStep(syms, up, i, acc))

\* if results: self.index_data = pd.DataFrame(results)
StoredTableAlways(old, results) == Some(results)

StoredTable(old, results) == IF results # <<>> THEN Some(results) ELSE old

fetch_index_data(syms, up) ==
    LET out == QuoteLoop(syms, up, 1,
                         [results |-> NewResults(index_data), signals |-> <<>>])
        ok == out.results # <<>>
    IN  /\ index_data' = StoredTable(index_data, out.results)
        /\ ret' = Some(ok)
        /\ signals' = IF ok THEN out.signals ELSE Append(out.signals, Error)
        /\ call' = "fetch_index_data"
        /\ symbols' = syms
        /\ upstream' = up
        /\ attempts' = [i \in 1 .. Len(syms) |-> 1]
        /\ UNCHANGED <<historical_data, regions, performance_filter,
                       filtered_data>>

\* ---- fetch_historical_data -----------------------------------------------
HasObservationsTwo(hist) == Len(hist) >= 2

HasObservations(hist) == Len(hist) # 0

\* hist['Normalized'] = (hist['Close'] / start_price - 1) * 100
Normalized(close) ==
    LET start_price == close[1]
    IN  [i \in 1 .. Len(close) |->
            FloatTimes100(FloatMinusOne(FloatDiv(close[i], start_price)))]

HistorySeries(hist) == [Close |-> hist, Normalized |-> Normalized(hist)]

\* historical_data = {}
NewHistory(old) == <<>>

Put(mapping, key, value) ==
    [k \in DOMAIN mapping \cup {key} |->
        IF k = key THEN value ELSE mapping[k]]

HistoryStep(syms, up, i, acc) ==
    LET got == history(up[i], 1)
    IN  IF got.raised
        THEN [acc EXCEPT !.signals = Append(@, Warning(syms[i]))]
        ELSE IF HasObservations(got.hist)
        THEN [acc EXCEPT
                !.results = Put(@, syms[i], HistorySeries(got.hist))]
        ELSE acc

RECURSIVE HistoryLoop(_, _, _, _)
HistoryLoop(syms, up, i, acc) ==
    IF i > Len(syms) THEN acc
    ELSE HistoryLoop(syms, up, i + 1, HistoryStep(syms, up, i, acc))

\* `up` is what ticker.history(period=period) answers; the period reaches
\* nothing else
fetch_historical_data(syms, up) ==
    LET out == HistoryLoop(syms, up, 1,
                   [results |-> NewHistory(historical_data), signals |-> <<>>])
    IN  /\ historical_data' = Some(out.results)
        /\ ret' = Some(DOMAIN out.results # {})
        /\ signals' = out.signals
        /\ call' = "fetch_historical_data"
        /\ symbols' = syms
        /\ upstream' = up
        /\ attempts' = [i \in 1 .. Len(syms) |-> 1]
        /\ UNCHANGED <<index_data, regions, performance_filter,
                       filtered_data>>

\* ---- the display filter of main ------------------------------------------
PerformanceOptions == {"All", "Gainers Only", "Losers Only", "No Change"}

AllRegions == {InfoOf(sym).region : sym \in Symbols}

RegionsOf(table) == {table[i].Region : i \in 1 .. Len(table)}

\* the boolean mask of one bucket
InBucketInclusive(row, bucket) ==
    CASE bucket = "Gainers Only" -> row.ChangePct.num > 0
      [] bucket = "Losers Only" -> row.ChangePct.num <= 0
      [] bucket = "No Change" -> row.ChangePct.num = 0
      [] OTHER -> TRUE

InBucket(row, bucket) ==
    CASE bucket = "Gainers Only" -> row.ChangePct.num > 0
      [] bucket = "Losers Only" -> row.ChangePct.num < 0
      [] bucket = "No Change" -> row.ChangePct.num = 0
      [] OTHER -> TRUE

\* table[mask]: the rows whose mask is set, in table order
RECURSIVE Masked(_, _)
Masked(table, mask) ==
    IF table = <<>> THEN <<>>
    ELSE IF mask[1] THEN <<table[1]>> \o Masked(Tail(table), Tail(mask))
    ELSE Masked(Tail(table), Tail(mask))

FilterRegion(table, regs) ==
    Masked(table, [i \in 1 .. Len(table) |-> table[i].Region \in regs])

FilterPerformance(table, bucket) ==
    Masked(table, [i \in 1 .. Len(table) |-> InBucket(table[i], bucket)])

FilteredDataUnchained(table, regs, bucket) ==
    IF bucket = "All" THEN FilterRegion(table, regs)
    ELSE FilterPerformance(table, bucket)

FilteredData(table, regs, bucket) ==
    FilterPerformance(FilterRegion(table, regs), bucket)

ApplyFilters(regs, bucket) ==
    /\ index_data # None
    /\ Get(index_data) # <<>>
    /\ regs \subseteq RegionsOf(Get(index_data))
    /\ regions' = regs
    /\ performance_filter' = bucket
    /\ filtered_data' = Some(FilteredData(Get(index_data), regs, bucket))
    /\ call' = "filter"
    /\ UNCHANGED <<index_data, historical_data, symbols, upstream, attempts,
                   ret, signals>>

\* ---- the tracker after __init__ ------------------------------------------
Init ==
    /\ index_data = None
    /\ historical_data = None
    /\ call = "__init__"
    /\ symbols = <<>>
    /\ upstream = <<>>
    /\ attempts = <<>>
    /\ ret = None
    /\ signals = <<>>
    /\ regions = {}
    /\ performance_filter = "All"
    /\ filtered_data = None

\* ---- any sequence of refreshes -------------------------------------------
Next ==
    \/ \E syms \in PairLists :
         \E up \in [1 .. Len(syms) -> SteadyResponses] :
            fetch_index_data(syms, up)
    \/ \E syms \in PairLists :
         \E up \in [1 .. Len(syms) -> SteadyResponses] :
            fetch_historical_data(syms, up)

Spec == Init /\ [][Next]_vars

\* ---- the first refresh of a fresh tracker --------------------------------
\* over every answer for up to two symbols, and over steady answers for up
\* to three
NextFirst ==
    \/ /\ call = "__init__"
       /\ \E syms \in PairLists :
            \E up \in [1 .. Len(syms) -> Responses \cup TransientResponses] :
               fetch_index_data(syms, up)
    \/ /\ call = "__init__"
       /\ \E syms \in SymbolLists :
            \E up \in [1 .. Len(syms) -> SteadyResponses] :
               fetch_index_data(syms, up)
    \/ /\ call = "__init__"
       /\ \E syms \in PairLists :
            \E up \in [1 .. Len(syms) -> Responses] :
               fetch_historical_data(syms, up)

SpecFirst == Init /\ [][NextFirst]_vars

\* ---- one run of main: the load, then the display filter ------------------
NextDisplay ==
    \/ /\ call = "__init__"
       /\ \E syms \in SymbolLists :
            \E up \in [1 .. Len(syms) -> TwoDayResponses] :
               fetch_index_data(syms, up)
    \/ /\ call = "fetch_index_data"
       /\ \E regs \in SUBSET AllRegions :
            \E bucket \in PerformanceOptions : ApplyFilters(regs, bucket)

SpecDisplay == Init /\ [][NextDisplay]_vars

\* ==== properties ==========================================================
IsFetch == call \in {"fetch_index_data", "fetch_historical_data"}

Positions == 1 .. Len(symbols)

\* the answer at position i arrives on the first call with n or more closes
Answers(i, n) == upstream[i].fails = 0 /\ Len(upstream[i].hist) >= n

Rows == Get(index_data)

RowSymbols(table) == [i \in 1 .. Len(table) |-> table[i].Symbol]

Without(seq, f) ==
    [i \in 1 .. Len(seq) - 1 |-> IF i < f THEN seq[i] ELSE seq[i + 1]]

\* C1: in a quote refresh where the fetch of exactly one symbol raises and
\* every other requested symbol (at least one) answers with two or more
\* observations, the call returns True, the stored table holds exactly the
\* other symbols' records in request order, and the only signal is one
\* warning naming the failing symbol, wherever that symbol stands in the list.
C1_FailureIsolation ==
    call = "fetch_index_data" =>
        \A f \in Positions :
            ( /\ Len(symbols) >= 2
              /\ upstream[f].fails >= 1
              /\ \A i \in Positions \ {f} : Answers(i, 2) )
            => /\ ret = Some(TRUE)
               /\ index_data # None
               /\ Len(Rows) = Len(symbols) - 1
               /\ RowSymbols(Rows) = Without(symbols, f)
               /\ signals = <<[kind |-> "warning", symbol |-> symbols[f]]>>

C1_Witness ==
    /\ call = "fetch_index_data"
    /\ Len(symbols) = 3
    /\ Answers(1, 2)
    /\ upstream[2].fails >= 1
    /\ Answers(3, 2)
    /\ ret = Some(TRUE)
    /\ RowSymbols(Rows) = <<symbols[1], symbols[3]>>
    /\ Len(signals) = 1

StoredSymbols ==
    IF call = "fetch_index_data"
    THEN IF ret = Some(TRUE) THEN Range(RowSymbols(Rows)) ELSE {}
    ELSE DOMAIN Get(historical_data)

\* C2: after a quote or history refresh, every requested symbol that is
\* missing from the stored result is named by a warning, or the refresh as a
\* whole reports failure (an error message or a False return).
C2_NoSilentDrop ==
    IsFetch =>
        \A i \in Positions :
            symbols[i] \notin StoredSymbols
            => \/ \E j \in 1 .. Len(signals) : signals[j].symbol = symbols[i]
               \/ \E j \in 1 .. Len(signals) : signals[j].kind = "error"
               \/ ret = Some(FALSE)

\* C3: a quote refresh whose upstream calls fail twice and would answer on
\* the third attempt returns True with a record per symbol; one whose
\* upstream calls fail three times in a row returns False with an error; and
\* no position is tried more than three times.
C3_BoundedRetry ==
    call = "fetch_index_data" =>
        /\ (\A i \in Positions :
                upstream[i].fails = 2 /\ Len(upstream[i].hist) >= 2)
           => (ret = Some(TRUE) /\ Len(Rows) = Len(symbols))
        /\ (\A i \in Positions : upstream[i].fails >= 3)
           => ( /\ ret = Some(FALSE)
                /\ \E j \in 1 .. Len(signals) : signals[j].kind = "error" )
        /\ \A i \in Positions : attempts[i] <= 3

\* C4: a quote refresh that returns False leaves index_data exactly as it
\* was, and index_data is always None or a table of at least one record.
C4_FailedRefreshKeepsTable ==
    /\ [](index_data = None \/ Rows # <<>>)
    /\ [][(call' = "fetch_index_data" /\ ret' = Some(FALSE))
            => index_data' = index_data]_vars

C4_Witness ==
    /\ call = "fetch_index_data"
    /\ ret = Some(FALSE)
    /\ index_data # None
    /\ Range(symbols) \cap Range(RowSymbols(Rows)) # {}

\* C5: after a successful quote refresh for the list S the stored table has
\* records only for symbols of S, and after a history refresh for S the
\* stored mapping has keys only from S, whatever was stored before.
C5_WhollyReplaced ==
    /\ (call = "fetch_index_data" /\ ret = Some(TRUE))
       => Range(RowSymbols(Rows)) \subseteq Range(symbols)
    /\ call = "fetch_historical_data"
       => DOMAIN Get(historical_data) \subseteq Range(symbols)

C5_Witness ==
    /\ call = "fetch_index_data"
    /\ ret = Some(TRUE)
    /\ Len(symbols) = 1
    /\ historical_data # None
    /\ ~(DOMAIN Get(historical_data) \subseteq Range(symbols))

\* the record stored for the symbol requested at position i, if any
RowsFor(i) == {r \in Range(Rows) : r.Symbol = symbols[i]}

LastClose(i) == upstream[i].hist[Len(upstream[i].hist)]

PreviousClose(i) == upstream[i].hist[Len(upstream[i].hist) - 1]

ChangeIsDifference(i) ==
    \A r \in RowsFor(i) : r.Change = LastClose(i) - PreviousClose(i)

\* pct = 100 * (close - previousClose) / previousClose, without dividing
PctIsRatio(i) ==
    \A r \in RowsFor(i) :
        r.ChangePct.num * PreviousClose(i)
            = 100 * (LastClose(i) - PreviousClose(i)) * r.ChangePct.den

OneRecordEach ==
    /\ \A i \in Positions :
          Cardinality(RowsFor(i)) = (IF Answers(i, 2) THEN 1 ELSE 0)
    /\ Len(Rows) = Cardinality({i \in Positions : Answers(i, 2)})

AllDefined == \A r \in Range(Rows) : r.ChangePct.den # 0

\* C6 as stated: every symbol with two or more observations has a record
\* with Change = close - previousClose and
\* Change % = 100 * (close - previousClose) / previousClose; a symbol with
\* fewer has none; no record carries an undefined change.
C6_AsStated ==
    (call = "fetch_index_data" /\ ret = Some(TRUE)) =>
        /\ OneRecordEach
        /\ AllDefined
        /\ \A i \in Positions :
              Answers(i, 2) => ChangeIsDifference(i) /\ PctIsRatio(i)

\* C6: every symbol with two or more observations has a record with
\* Change = close - previousClose, and with
\* Change % = 100 * (close - previousClose) / previousClose when
\* previousClose is not 0 and Change % = 0 when it is; a symbol with fewer
\* observations has none; no record carries an undefined change.
C6_ChangeColumns ==
    (call = "fetch_index_data" /\ ret = Some(TRUE)) =>
        /\ OneRecordEach
        /\ AllDefined
        /\ \A i \in Positions :
              Answers(i, 2) =>
                /\ ChangeIsDifference(i)
                /\ PreviousClose(i) # 0 => PctIsRatio(i)
                /\ PreviousClose(i) = 0 =>
                      \A r \in RowsFor(i) : r.ChangePct = [num |-> 0, den |-> 1]

C6_Witness ==
    /\ call = "fetch_index_data"
    /\ ret = Some(TRUE)
    /\ Len(Rows) = 2
    /\ Rows[1].ChangePct.num > 0
    /\ Rows[2].ChangePct.num < 0
    /\ Rows[2].ChangePct.den = 1
    /\ Rows[2].ChangePct.num # -100

\* C7: in every stored, non-empty history series
\* normalized[i] = 100 * (close[i] / close[0] - 1) at every index, and the
\* first normalized value is 0.
C7_Normalization ==
    call = "fetch_historical_data" =>
        \A sym \in DOMAIN Get(historical_data) :
            LET series == Get(historical_data)[sym]
            IN  /\ series.Normalized[1] = [num |-> 0, den |-> 1]
                /\ \A i \in 1 .. Len(series.Close) :
                      /\ series.Normalized[i].den # 0
                      /\ series.Normalized[i].num * series.Close[1]
                            = 100 * (series.Close[i] - series.Close[1])
                                * series.Normalized[i].den

\* C8: after a history refresh the stored mapping's keys are exactly the
\* requested symbols whose fetch answered with a non-empty series, and the
\* call returns True exactly when there is at least one such symbol.
C8_HistoryOmission ==
    call = "fetch_historical_data" =>
        LET withData == {symbols[i] : i \in {j \in Positions : Answers(j, 1)}}
        IN  /\ historical_data # None
            /\ DOMAIN Get(historical_data) = withData
            /\ ret = Some(withData # {})

C8_Witness ==
    /\ call = "fetch_historical_data"
    /\ Len(symbols) = 2
    /\ upstream[1].fails = 0
    /\ upstream[1].hist = <<>>
    /\ Answers(2, 1)
    /\ ret = Some(TRUE)
    /\ DOMAIN Get(historical_data) = {symbols[2]}

\* what the three buckets mean
Satisfies(row, bucket) ==
    /\ bucket = "Gainers Only" => row.ChangePct.num > 0
    /\ bucket = "Losers Only" => row.ChangePct.num < 0
    /\ bucket = "No Change" => row.ChangePct.num = 0

Keep(row) ==
    row.Region \in regions /\ Satisfies(row, performance_filter)

\* C9: filtering the stored table by the regions A and then by the bucket B
\* yields exactly the records that satisfy both A and B, in table order.
C9_FilterComposition ==
    call = "filter" => filtered_data = Some(SelectSeq(Rows, Keep))

C9_Witness ==
    /\ call = "filter"
    /\ Len(Rows) = 3
    /\ Rows[1].ChangePct.num > 0
    /\ Rows[2].ChangePct.num > 0
    /\ Rows[3].ChangePct.num < 0
    /\ Rows[1].Region = "Unknown"
    /\ performance_filter = "Gainers Only"
    /\ regions = {"Japan"}
    /\ filtered_data = Some(<<Rows[2]>>)

RECURSIVE IsSubSeq(_, _)
IsSubSeq(a, b) ==
    \/ a = <<>>
    \/ /\ b # <<>>
       /\ IF a[1] = b[1] THEN IsSubSeq(Tail(a), Tail(b))
          ELSE IsSubSeq(a, Tail(b))

BucketOf(bucket) == FilterPerformance(FilterRegion(Rows, regions), bucket)

Partition ==
    LET all == FilterRegion(Rows, regions)
        g == BucketOf("Gainers Only")
        l == BucketOf("Losers Only")
        z == BucketOf("No Change")
    IN  /\ Range(g) \cap Range(l) = {}
        /\ Range(g) \cap Range(z) = {}
        /\ Range(l) \cap Range(z) = {}
        /\ Range(g) \cup Range(l) \cup Range(z) = Range(all)
        /\ Len(g) + Len(l) + Len(z) = Len(all)
        /\ \A r \in Range(g) : r.ChangePct.num > 0
        /\ \A r \in Range(l) : r.ChangePct.num < 0
        /\ \A r \in Range(z) : r.ChangePct.num = 0

\* C10: the filtered result is a sub-sequence of the stored table, filtering
\* leaves the stored table as it was, and the Gainers, Losers and No Change
\* buckets split the region-filtered table into pairwise disjoint parts.
C10_PureFilter ==
    /\ [](call = "filter" =>
            /\ IsSubSeq(Get(filtered_data), Rows)
            /\ Partition)
    /\ [][call' = "filter" => index_data' = index_data]_vars

C10_Witness ==
    /\ call = "filter"
    /\ Len(Rows) = 3
    /\ Rows[2].ChangePct.num = 0
    /\ performance_filter = "Losers Only"
    /\ regions = RegionsOf(Rows)
    /\ filtered_data = Some(<<Rows[1], Rows[3]>>)

====
